---- MODULE Spec2Model ----
(***************************************************************************)
(* A model of the pipeline-stage decoder (pkg/config/deployment.go) and of *)
(* the Cloud Run executor (pkg/app/piped/executor/cloudrun/cloudrun.go).   *)
(*                                                                         *)
(* Encoding conventions                                                    *)
(*   - a Go pointer is a sequence: <<>> is nil, <<v>> points at value v;   *)
(*   - a Go error is a sequence of strings: <<>> is the nil error;         *)
(*   - raw JSON bytes are a sequence of tokens, <<>> being zero bytes.     *)
(***************************************************************************)
EXTENDS Integers, Sequences, FiniteSets, TLC

VARIABLES
    \* the decoder: the stage being decoded into, the error of the last decode,
    \* the bytes it was given, the stage as it was before, and where we are
    s, err, data, prev, phase,
    \* one Cloud Run stage execution after another against one platform
    pc, cfg, sm, revision, service, cancelled, calls, logs,
    clientErr, updErr, crtErr, configured, result,
    runs, existed, after, created,
    \* the executor registry at process start
    stageFactories, rollbackFactories, returned, surfaced, registerCalls

decodeVars == <<s, err, data, prev, phase>>

applyVars ==
    <<pc, cfg, sm, revision, service, cancelled, calls, logs,
      clientErr, updErr, crtErr, configured, result,
      runs, existed, after, created>>

registryVars == <<stageFactories, rollbackFactories, returned, surfaced, registerCalls>>

vars == <<decodeVars, applyVars, registryVars>>

\* ------------------------------------------------------------------------
\* Bounds
\* ------------------------------------------------------------------------

\* The largest number of fields of a `with` object.
MaxFields == 1

\* The number of successive stage executions against the platform.
MaxRuns == 2

\* The number of registration calls made at process start.
MaxRegisterCalls == 4

\* ------------------------------------------------------------------------
\* model.Stage values (package pkg/model)
\* ------------------------------------------------------------------------

StageWait == "WAIT"
StageWaitApproval == "WAIT_APPROVAL"
StageAnalysis == "ANALYSIS"
StageK8sPrimaryRollout == "K8S_PRIMARY_ROLLOUT"
StageK8sCanaryRollout == "K8S_CANARY_ROLLOUT"
StageK8sCanaryClean == "K8S_CANARY_CLEAN"
StageK8sBaselineRollout == "K8S_BASELINE_ROLLOUT"
StageK8sBaselineClean == "K8S_BASELINE_CLEAN"
StageK8sTrafficRouting == "K8S_TRAFFIC_ROUTING"
StageTerraformPlan == "TERRAFORM_PLAN"
StageTerraformApply == "TERRAFORM_APPLY"
StageCloudRunSync == "CLOUDRUN_SYNC"
StageCloudRunPromote == "CLOUDRUN_PROMOTE"

\* ------------------------------------------------------------------------
\* PipelineStage and its decoder
\* ------------------------------------------------------------------------

NoErr == << >>
NilPtr == << >>

\* The options fields of PipelineStage.
OptionsFields ==
    { "WaitStageOptions", "WaitApprovalStageOptions", "AnalysisStageOptions",
      "K8sPrimaryRolloutStageOptions", "K8sCanaryRolloutStageOptions",
      "K8sCanaryCleanStageOptions", "K8sBaselineRolloutStageOptions",
      "K8sBaselineCleanStageOptions", "K8sTrafficRoutingStageOptions",
      "TerraformPlanStageOptions", "TerraformApplyStageOptions" }

\* PipelineStage{}: the zero value of the struct, every pointer nil.
PipelineStage ==
    [ Id |-> "", Name |-> "", Desc |-> "", Timeout |-> 0,
      opts |-> [f \in OptionsFields |-> NilPtr] ]

\* The zero value of an options struct (&WaitStageOptions{} and the like).
ZeroOptions == 0

\* The value a field token of a `with` object decodes to.
FieldValue(tok) == IF tok = "1" THEN 1 ELSE 0

SyntaxError == <<"json: syntax error">>
UnmarshalTypeError == <<"json: cannot unmarshal">>

RECURSIVE DecodeFields(_, _)
\* encoding/json over the fields of an object: a well-typed field is stored,
\* an ill-typed one is skipped and remembered, and decoding goes on; the
\* first type error is what Unmarshal returns.
DecodeFields(toks, acc) ==
    IF toks = << >> THEN acc
    ELSE LET t == Head(toks) IN
         DecodeFields(Tail(toks),
            IF t = "bad"
            THEN [acc EXCEPT !.err = IF acc.err = NoErr THEN UnmarshalTypeError
                                                        ELSE acc.err]
            ELSE [acc EXCEPT !.val = FieldValue(t)])

\* json.Unmarshal(gs.With, s.XxxStageOptions): raw bytes into an options struct
\* holding cur.
JsonUnmarshalOptions(raw, cur) ==
    IF raw = << >> THEN [val |-> cur, err |-> SyntaxError]
    ELSE IF raw = <<"null">> THEN [val |-> cur, err |-> NoErr]
    ELSE IF Head(raw) = "{"
         THEN DecodeFields(SubSeq(raw, 2, Len(raw) - 1), [val |-> cur, err |-> NoErr])
         ELSE [val |-> cur, err |-> UnmarshalTypeError]

\* genericPipelineStage{}
genericPipelineStage ==
    [ Id |-> "", Name |-> "", Desc |-> "", Timeout |-> 0, With |-> << >> ]

\* json.Unmarshal(data, &gs): the envelope. d.form tells whether the bytes are
\* JSON at all ("syntax"), whether a common field has the wrong type ("type"),
\* or neither ("ok").
JsonUnmarshalEnvelope(d) ==
    IF d.form = "syntax" THEN [gs |-> genericPipelineStage, err |-> SyntaxError]
    ELSE [ gs |-> [ Id |-> d.Id, Name |-> d.Name, Desc |-> d.Desc,
                    Timeout |-> d.Timeout, With |-> d.With ],
           err |-> IF d.form = "type" THEN UnmarshalTypeError ELSE NoErr ]

\* The mutant with the K8S_CANARY_CLEAN case populating the canary rollout
\* options.
OptionsFieldOf_CopyPaste(name) ==
    CASE name = StageWait -> "WaitStageOptions"
      [] name = StageWaitApproval -> "WaitApprovalStageOptions"
      [] name = StageAnalysis -> "AnalysisStageOptions"
      [] name = StageK8sPrimaryRollout -> "K8sPrimaryRolloutStageOptions"
      [] name = StageK8sCanaryRollout -> "K8sCanaryRolloutStageOptions"
      [] name = StageK8sCanaryClean -> "K8sCanaryRolloutStageOptions"
      [] name = StageK8sBaselineRollout -> "K8sBaselineRolloutStageOptions"
      [] name = StageK8sBaselineClean -> "K8sBaselineCleanStageOptions"
      [] name = StageK8sTrafficRouting -> "K8sTrafficRoutingStageOptions"
      [] name = StageTerraformPlan -> "TerraformPlanStageOptions"
      [] name = StageTerraformApply -> "TerraformApplyStageOptions"
      [] OTHER -> ""

\* The switch on s.Name: the options field a stage name selects, "" for the
\* default branch.
OptionsFieldOf(name) ==
    CASE name = StageWait -> "WaitStageOptions"
      [] name = StageWaitApproval -> "WaitApprovalStageOptions"
      [] name = StageAnalysis -> "AnalysisStageOptions"
      [] name = StageK8sPrimaryRollout -> "K8sPrimaryRolloutStageOptions"
      [] name = StageK8sCanaryRollout -> "K8sCanaryRolloutStageOptions"
      [] name = StageK8sCanaryClean -> "K8sCanaryCleanStageOptions"
      [] name = StageK8sBaselineRollout -> "K8sBaselineRolloutStageOptions"
      [] name = StageK8sBaselineClean -> "K8sBaselineCleanStageOptions"
      [] name = StageK8sTrafficRouting -> "K8sTrafficRoutingStageOptions"
      [] name = StageTerraformPlan -> "TerraformPlanStageOptions"
      [] name = StageTerraformApply -> "TerraformApplyStageOptions"
      [] OTHER -> ""

\* The mutant that decodes the payload whatever its length.
HasPayload_Always(with) == TRUE

\* if len(gs.With) > 0
HasPayload(with) == Len(with) > 0

\* The mutant whose default branch sets no error.
UnsupportedStage_Ignored(name) == NoErr

\* fmt.Errorf("unsupported stage name: %s", s.Name)
UnsupportedStage(name) == <<"unsupported stage name", name>>

\* (s *PipelineStage) UnmarshalJSON(data): the stage and the error it leaves.
UnmarshalJSON(st, d) ==
    LET e == JsonUnmarshalEnvelope(d) IN
    IF e.err # NoErr THEN [s |-> st, err |-> e.err]
    ELSE LET gs == e.gs
             s1 == [st EXCEPT !.Id = gs.Id, !.Name = gs.Name,
                              !.Desc = gs.Desc, !.Timeout = gs.Timeout]
             f == OptionsFieldOf(s1.Name)
         IN  IF f = "" THEN [s |-> s1, err |-> UnsupportedStage(s1.Name)]
             ELSE LET r == IF HasPayload(gs.With)
                           THEN JsonUnmarshalOptions(gs.With, ZeroOptions)
                           ELSE [val |-> ZeroOptions, err |-> NoErr]
                  IN  [ s |-> [s1 EXCEPT !.opts[f] = <<r.val>>], err |-> r.err ]

\* ------------------------------------------------------------------------
\* Inputs of the decoder
\* ------------------------------------------------------------------------

KnownStages ==
    { StageWait, StageWaitApproval, StageAnalysis, StageK8sPrimaryRollout,
      StageK8sCanaryRollout, StageK8sCanaryClean, StageK8sBaselineRollout,
      StageK8sBaselineClean, StageK8sTrafficRouting, StageTerraformPlan,
      StageTerraformApply }

StageNames == KnownStages \cup {StageCloudRunSync, StageCloudRunPromote, "", "ROLLOUT"}

FieldTokens == {"0", "1", "bad"}

RECURSIVE SeqsUpTo(_, _)
SeqsUpTo(S, n) ==
    IF n = 0 THEN { << >> }
    ELSE LET shorter == SeqsUpTo(S, n - 1) IN
         shorter \cup { Append(q, x) : q \in shorter, x \in S }

\* The bytes of a `with` block: none, null, a scalar, or an object.
Payloads ==
    { << >>, <<"null">>, <<"str">> }
    \cup { <<"{">> \o q \o <<"}">> : q \in SeqsUpTo(FieldTokens, MaxFields) }

StageData ==
    [ form : {"ok", "syntax", "type"}, Id : {"stage-0", "stage-1"},
      Name : StageNames, Desc : {"desc"}, Timeout : {10}, With : Payloads ]

NoData ==
    [ form |-> "ok", Id |-> "", Name |-> "", Desc |-> "", Timeout |-> 0,
      With |-> << >> ]

\* ------------------------------------------------------------------------
\* The decoder as a state machine
\* ------------------------------------------------------------------------

DecodeInit ==
    /\ s = PipelineStage
    /\ err = NoErr
    /\ data = NoData
    /\ prev = PipelineStage
    /\ phase = "new"

\* var s PipelineStage
NewStage ==
    /\ phase # "new"
    /\ s' = PipelineStage
    /\ err' = NoErr
    /\ data' = NoData
    /\ prev' = PipelineStage
    /\ phase' = "new"
    /\ UNCHANGED <<applyVars, registryVars>>

\* s.UnmarshalJSON(d) on a fresh stage, or once more on the stage just decoded.
Decode ==
    /\ phase \in {"new", "decoded"}
    /\ \E d \in StageData :
        LET r == UnmarshalJSON(s, d) IN
        /\ s' = r.s
        /\ err' = r.err
        /\ data' = d
        /\ prev' = s
    /\ phase' = IF phase = "new" THEN "decoded" ELSE "redecoded"
    /\ UNCHANGED <<applyVars, registryVars>>

DecodeNext == NewStage \/ Decode

\* ------------------------------------------------------------------------
\* The Cloud Run executor: one stage execution
\* ------------------------------------------------------------------------

ErrServiceNotFound == <<"service not found">>
ErrPlatform == <<"platform error">>
ErrCanceled == <<"context canceled">>
ErrManifest == <<"manifest error">>

\* provider.ServiceManifest{}
NoManifest == [Name |-> "", Revision |-> << >>, Traffic |-> << >>]

\* The service manifest as the deploy source holds it.
SourceManifest == [Name |-> "svc", Revision |-> << >>, Traffic |-> << >>]

\* provider.DecideRevisionName(sm, commit): a fixed transform of the manifest's
\* name and the commit.
DecideRevisionName(m, commit) == <<m.Name, commit>>

\* The traffic split a stage asks for: everything to the new revision, or a
\* canary share with the rest on the revision serving before.
Traffics(rev, canary) ==
    IF canary
    THEN << [RevisionName |-> rev, Percent |-> 20],
            [RevisionName |-> <<"svc", "abc000">>, Percent |-> 80] >>
    ELSE << [RevisionName |-> rev, Percent |-> 100] >>

\* The service a platform may hold before the first execution.
OldService ==
    [ Name |-> "svc", Revision |-> <<"svc", "abc000">>,
      Traffic |-> << [RevisionName |-> <<"svc", "abc000">>, Percent |-> 100] >> ]

Info(msg) == <<"INFO", msg>>
Error(msg) == <<"ERROR", msg>>

RECURSIVE TrafficLines(_)
\* for _, t := range traffics { Infof("  %s: %d", ...) }
TrafficLines(ts) ==
    IF ts = << >> THEN << >>
    ELSE <<Info("traffic line")>> \o TrafficLines(Tail(ts))

\* The mutant of configureServiceManifest that goes on after UpdateTraffic
\* failed.
configureServiceManifest_NoReturn(m, rev, traffics, revErr, trafErr) ==
    IF revErr # NoErr
    THEN [ sm |-> m, ok |-> FALSE,
           logs |-> <<Error("Unable to set revision name to service manifest")>> ]
    ELSE LET m1 == [m EXCEPT !.Revision = rev] IN
         IF trafErr # NoErr
         THEN [ sm |-> m1, ok |-> TRUE,
                logs |-> <<Error("Unable to configure traffic percentages to service manifest")>> ]
         ELSE [ sm |-> [m1 EXCEPT !.Traffic = traffics], ok |-> TRUE,
                logs |-> <<Info("Successfully configured revision and traffic percentages to the service manifest")>>
                         \o TrafficLines(traffics) ]

\* configureServiceManifest(in, sm, revision, traffics), with the errors
\* sm.SetRevision and sm.UpdateTraffic return. The manifest is written through:
\* the function returns only a bool, and the caller applies the manifest it
\* passed in.
configureServiceManifest(m, rev, traffics, revErr, trafErr) ==
    IF revErr # NoErr
    THEN [ sm |-> m, ok |-> FALSE,
           logs |-> <<Error("Unable to set revision name to service manifest")>> ]
    ELSE LET m1 == [m EXCEPT !.Revision = rev] IN
         IF trafErr # NoErr
         THEN [ sm |-> m1, ok |-> FALSE,
                logs |-> <<Error("Unable to configure traffic percentages to service manifest")>> ]
         ELSE [ sm |-> [m1 EXCEPT !.Traffic = traffics], ok |-> TRUE,
                logs |-> <<Info("Successfully configured revision and traffic percentages to the service manifest")>>
                         \o TrafficLines(traffics) ]

\* Mutants of the comparison: every error fatal, no error fatal, the test
\* turned round.
IsNotServiceNotFound_Always(e) == TRUE
IsNotServiceNotFound_Never(e) == FALSE
IsNotServiceNotFound_Inverted(e) == e = ErrServiceNotFound

\* if err != provider.ErrServiceNotFound
IsNotServiceNotFound(e) == e # ErrServiceNotFound

\* The errors a call to the platform may come back with besides what the
\* platform itself answers: a failure of the platform or the network and, once
\* the context is cancelled, the context's error.
CallFailures == {ErrPlatform} \cup (IF cancelled THEN {ErrCanceled} ELSE {})

ApplyInit ==
    /\ pc = "idle"
    /\ cfg \in [commit : {"def456"}, canary : BOOLEAN]
    /\ sm = NoManifest
    /\ revision = << >>
    /\ service \in { << >>, <<OldService>> }
    /\ cancelled = FALSE
    /\ calls = << >>
    /\ logs = << >>
    /\ clientErr = NoErr
    /\ updErr = NoErr
    /\ crtErr = NoErr
    /\ configured = "none"
    /\ result = "none"
    /\ runs = 0
    /\ existed = FALSE
    /\ after = << >>
    /\ created = 0

\* A stage execution begins: a deployment runs its stages one after another,
\* and a failed or repeated deployment runs the stage again.
StartStage ==
    /\ pc \in {"idle", "done"}
    /\ runs < MaxRuns
    /\ runs' = runs + 1
    /\ pc' = "load"
    /\ sm' = NoManifest
    /\ revision' = << >>
    /\ cancelled' = FALSE
    /\ calls' = << >>
    /\ logs' = << >>
    /\ clientErr' = NoErr
    /\ updErr' = NoErr
    /\ crtErr' = NoErr
    /\ configured' = "none"
    /\ result' = "none"
    /\ existed' = FALSE
    /\ UNCHANGED <<cfg, service, after, created,
                   decodeVars, registryVars>>

\* The deployment is cancelled while the stage runs.
Cancel ==
    /\ pc \notin {"idle", "done"}
    /\ ~cancelled
    /\ cancelled' = TRUE
    /\ UNCHANGED <<pc, cfg, sm, revision, service, calls, logs, clientErr, updErr,
                   crtErr, configured, result, runs, existed, after, created,
                   decodeVars, registryVars>>

\* loadServiceManifest
LoadServiceManifest ==
    /\ pc = "load"
    /\ \E loadErr \in {NoErr, ErrManifest} :
        IF loadErr # NoErr
        THEN /\ logs' = logs \o <<Info("Loading service manifest"),
                                  Error("Failed to load service manifest")>>
             /\ sm' = NoManifest
             /\ pc' = "done"
        ELSE /\ logs' = logs \o <<Info("Loading service manifest"),
                                  Info("Successfully loaded the service manifest")>>
             /\ sm' = SourceManifest
             /\ pc' = "provider"
    /\ UNCHANGED <<cfg, revision, service, cancelled, calls, clientErr, updErr,
                   crtErr, configured, result, runs, existed, after, created,
                   decodeVars, registryVars>>

\* findCloudProvider
FindCloudProvider ==
    /\ pc = "provider"
    /\ \E name \in {"", "unknown", "cloudrun-default"} :
        IF name = ""
        THEN /\ logs' = Append(logs, Error("Missing the CloudProvider name in the application configuration"))
             /\ pc' = "done"
        ELSE IF name # "cloudrun-default"
        THEN /\ logs' = Append(logs, Error("The specified cloud provider was not found in piped configuration"))
             /\ pc' = "done"
        ELSE /\ logs' = logs
             /\ pc' = "revision"
    /\ UNCHANGED <<cfg, sm, revision, service, cancelled, calls, clientErr, updErr,
                   crtErr, configured, result, runs, existed, after, created,
                   decodeVars, registryVars>>

\* decideRevisionName
DecideRevision ==
    /\ pc = "revision"
    /\ \E decideErr \in {NoErr, ErrManifest} :
        IF decideErr # NoErr
        THEN /\ logs' = Append(logs, Error("Unable to decide revision name for the commit"))
             /\ revision' = << >>
             /\ pc' = "done"
        ELSE /\ logs' = logs
             /\ revision' = DecideRevisionName(sm, cfg.commit)
             /\ pc' = "configure"
    /\ UNCHANGED <<cfg, sm, service, cancelled, calls, clientErr, updErr, crtErr,
                   configured, result, runs, existed, after, created,
                   decodeVars, registryVars>>

\* configureServiceManifest, and the stage going on to apply only when it
\* returned true.
ConfigureServiceManifest ==
    /\ pc = "configure"
    /\ \E revErr \in {NoErr, ErrManifest}, trafErr \in {NoErr, ErrManifest} :
        LET r == configureServiceManifest(sm, revision,
                     Traffics(revision, cfg.canary), revErr, trafErr) IN
        /\ sm' = r.sm
        /\ logs' = logs \o r.logs
        /\ configured' = IF r.ok THEN "true" ELSE "false"
        /\ pc' = IF r.ok THEN "apply" ELSE "done"
    /\ UNCHANGED <<cfg, revision, service, cancelled, calls, clientErr, updErr,
                   crtErr, result, runs, existed, after, created,
                   decodeVars, registryVars>>

\* apply, up to the client: provider.DefaultRegistry().Client(...)
ApplyClient ==
    /\ pc = "apply"
    /\ existed' = (service # << >>)
    /\ \E e \in {NoErr, ErrPlatform} :
        /\ clientErr' = e
        /\ IF e # NoErr
           THEN /\ logs' = logs \o <<Info("Start applying the service manifest"),
                                     Error("Unable to create ClourRun client for the provider")>>
                /\ result' = "false"
                /\ pc' = "done"
                /\ after' = Append(after, [ok |-> FALSE, before |-> service, service |-> service])
           ELSE /\ logs' = Append(logs, Info("Start applying the service manifest"))
                /\ result' = result
                /\ pc' = "update"
                /\ after' = after
    /\ UNCHANGED <<cfg, sm, revision, service, cancelled, calls, updErr, crtErr,
                   configured, runs, created,
                   decodeVars, registryVars>>

\* apply: client.Update(ctx, sm) is called.
UpdateCall ==
    /\ pc = "update"
    /\ calls' = Append(calls, [op |-> "update", sm |-> sm, cancelled |-> cancelled])
    /\ pc' = "updating"
    /\ UNCHANGED <<cfg, sm, revision, service, cancelled, logs, clientErr, updErr,
                   crtErr, configured, result, runs, existed, after, created,
                   decodeVars, registryVars>>

\* apply: client.Update returns, and what apply does with the error.
UpdateReturn ==
    /\ pc = "updating"
    /\ \E e \in CallFailures \cup {IF service = << >> THEN ErrServiceNotFound ELSE NoErr} :
        /\ updErr' = e
        /\ IF e = NoErr
           THEN /\ service' = <<sm>>
                /\ logs' = Append(logs, Info("Successfully updated the service"))
                /\ result' = "true"
                /\ pc' = "done"
                /\ after' = Append(after, [ok |-> TRUE, before |-> service, service |-> <<sm>>])
           ELSE IF IsNotServiceNotFound(e)
           THEN /\ service' = service
                /\ logs' = Append(logs, Error("Failed to update the service"))
                /\ result' = "false"
                /\ pc' = "done"
                /\ after' = Append(after, [ok |-> FALSE, before |-> service, service |-> service])
           ELSE /\ service' = service
                /\ logs' = Append(logs, Info("Service was not found, a new service will be created"))
                /\ result' = result
                /\ pc' = "create"
                /\ after' = after
    /\ UNCHANGED <<cfg, sm, revision, cancelled, calls, clientErr, crtErr,
                   configured, runs, existed, created,
                   decodeVars, registryVars>>

\* apply: client.Create(ctx, sm) is called.
CreateCall ==
    /\ pc = "create"
    /\ calls' = Append(calls, [op |-> "create", sm |-> sm, cancelled |-> cancelled])
    /\ pc' = "creating"
    /\ UNCHANGED <<cfg, sm, revision, service, cancelled, logs, clientErr, updErr,
                   crtErr, configured, result, runs, existed, after, created,
                   decodeVars, registryVars>>

\* apply: client.Create returns.
CreateReturn ==
    /\ pc = "creating"
    /\ \E e \in CallFailures \cup {IF service = << >> THEN NoErr ELSE ErrPlatform} :
        /\ crtErr' = e
        /\ IF e # NoErr
           THEN /\ service' = service
                /\ created' = created
                /\ logs' = Append(logs, Error("Failed to create the service"))
                /\ result' = "false"
                /\ after' = Append(after, [ok |-> FALSE, before |-> service, service |-> service])
           ELSE /\ service' = <<sm>>
                /\ created' = created + 1
                /\ logs' = Append(logs, Info("Successfully created the service"))
                /\ result' = "true"
                /\ after' = Append(after, [ok |-> TRUE, before |-> service, service |-> <<sm>>])
    /\ pc' = "done"
    /\ UNCHANGED <<cfg, sm, revision, cancelled, calls, clientErr, updErr,
                   configured, runs, existed,
                   decodeVars, registryVars>>

ApplyNext ==
    \/ StartStage
    \/ Cancel
    \/ LoadServiceManifest
    \/ FindCloudProvider
    \/ DecideRevision
    \/ ConfigureServiceManifest
    \/ ApplyClient
    \/ UpdateCall
    \/ UpdateReturn
    \/ CreateCall
    \/ CreateReturn

\* ------------------------------------------------------------------------
\* The executor registry and cloudrun.Register
\* ------------------------------------------------------------------------

ApplicationKind_CLOUDRUN == "CLOUDRUN"
ApplicationKind_KUBERNETES == "KUBERNETES"

\* The stage kinds and application kinds some package registers at start.
RegistryStages == {StageCloudRunSync, StageCloudRunPromote, StageWait, StageK8sPrimaryRollout}
RegistryKinds == {ApplicationKind_CLOUDRUN, ApplicationKind_KUBERNETES}

NoFactory == ""
ErrAlreadyRegistered == <<"already registered">>

\* registerer.Register and registerer.RegisterRollback: a key is written once;
\* a second registration of it fails and leaves the first as it is.
registerer_Register(reg, key, f) ==
    IF reg[key] # NoFactory
    THEN [reg |-> reg, err |-> ErrAlreadyRegistered]
    ELSE [reg |-> [reg EXCEPT ![key] = f], err |-> NoErr]

\* The number of non-nil errors among es.
RECURSIVE Failures(_)
Failures(es) ==
    IF es = << >> THEN 0
    ELSE (IF Head(es) # NoErr THEN 1 ELSE 0) + Failures(Tail(es))

\* The stage kinds cloudrun.Register registers its executor factory for.
CloudRunStages == {StageCloudRunSync, StageCloudRunPromote}

RegistryInit ==
    /\ stageFactories = [k \in RegistryStages |-> NoFactory]
    /\ rollbackFactories = [k \in RegistryKinds |-> NoFactory]
    /\ returned = 0
    /\ surfaced = 0
    /\ registerCalls = 0

\* cloudrun.Register(r): three registrations, none of whose errors is looked at.
Register ==
    /\ registerCalls < MaxRegisterCalls
    /\ registerCalls' = registerCalls + 1
    /\ LET r1 == registerer_Register(stageFactories, StageCloudRunSync, "cloudrun.deployExecutor")
           r2 == registerer_Register(r1.reg, StageCloudRunPromote, "cloudrun.deployExecutor")
           r3 == registerer_Register(rollbackFactories, ApplicationKind_CLOUDRUN, "cloudrun.rollbackExecutor")
       IN  /\ stageFactories' = r2.reg
           /\ rollbackFactories' = r3.reg
           /\ returned' = returned + Failures(<<r1.err, r2.err, r3.err>>)
           /\ surfaced' = surfaced
    /\ UNCHANGED <<decodeVars, applyVars>>

\* Another package registers an executor factory at start and reports the error.
OtherRegister ==
    /\ registerCalls < MaxRegisterCalls
    /\ registerCalls' = registerCalls + 1
    /\ \E k \in RegistryStages :
        LET r == registerer_Register(stageFactories, k, "other.executor") IN
        /\ stageFactories' = r.reg
        /\ returned' = returned + Failures(<<r.err>>)
        /\ surfaced' = surfaced + Failures(<<r.err>>)
    /\ UNCHANGED <<rollbackFactories, decodeVars, applyVars>>

\* Another package registers a rollback factory at start and reports the error.
OtherRegisterRollback ==
    /\ registerCalls < MaxRegisterCalls
    /\ registerCalls' = registerCalls + 1
    /\ \E k \in RegistryKinds :
        LET r == registerer_Register(rollbackFactories, k, "other.rollbackExecutor") IN
        /\ rollbackFactories' = r.reg
        /\ returned' = returned + Failures(<<r.err>>)
        /\ surfaced' = surfaced + Failures(<<r.err>>)
    /\ UNCHANGED <<stageFactories, decodeVars, applyVars>>

RegistryNext == Register \/ OtherRegister \/ OtherRegisterRollback

\* ------------------------------------------------------------------------
\* Specifications: each part runs by itself, the others at rest
\* ------------------------------------------------------------------------

ApplyAtRest ==
    /\ ApplyInit
    /\ cfg = [commit |-> "def456", canary |-> FALSE]
    /\ service = << >>

InitDecode == DecodeInit /\ ApplyAtRest /\ RegistryInit
InitApply == DecodeInit /\ ApplyInit /\ RegistryInit
InitRegistry == DecodeInit /\ ApplyAtRest /\ RegistryInit

SpecDecode == InitDecode /\ [][DecodeNext]_vars
SpecApply == InitApply /\ [][ApplyNext]_vars
SpecRegistry == InitRegistry /\ [][RegistryNext]_vars

\* ------------------------------------------------------------------------
\* Properties of the decoder
\* ------------------------------------------------------------------------

\* The options field that goes with each stage name.
StageOptionsTable ==
    { <<"WAIT", "WaitStageOptions">>,
      <<"WAIT_APPROVAL", "WaitApprovalStageOptions">>,
      <<"ANALYSIS", "AnalysisStageOptions">>,
      <<"K8S_PRIMARY_ROLLOUT", "K8sPrimaryRolloutStageOptions">>,
      <<"K8S_CANARY_ROLLOUT", "K8sCanaryRolloutStageOptions">>,
      <<"K8S_CANARY_CLEAN", "K8sCanaryCleanStageOptions">>,
      <<"K8S_BASELINE_ROLLOUT", "K8sBaselineRolloutStageOptions">>,
      <<"K8S_BASELINE_CLEAN", "K8sBaselineCleanStageOptions">>,
      <<"K8S_TRAFFIC_ROUTING", "K8sTrafficRoutingStageOptions">>,
      <<"TERRAFORM_PLAN", "TerraformPlanStageOptions">>,
      <<"TERRAFORM_APPLY", "TerraformApplyStageOptions">> }

HandledNames == { p[1] : p \in StageOptionsTable }

\* A `with` block the options type accepts: none, null, or an object whose
\* fields all have the right type.
WellFormedPayloads ==
    { << >>, <<"null">> }
    \cup { <<"{">> \o q \o <<"}">> : q \in SeqsUpTo({"0", "1"}, MaxFields) }

\* A `with` block that is absent or empty.
EmptyPayloads == { << >>, <<"null">>, <<"{", "}">> }

Decoded == phase \in {"decoded", "redecoded"}

\* C1: a stage definition of a handled name with a well-formed payload, decoded
\* into a fresh PipelineStage, gives no error and leaves populated exactly the
\* options field that goes with the name.
C1_ExactlyOneVariant ==
    ( /\ phase = "decoded"
      /\ data.form = "ok"
      /\ data.Name \in HandledNames
      /\ data.With \in WellFormedPayloads )
    => /\ err = NoErr
       /\ \A f \in OptionsFields :
            (s.opts[f] # NilPtr) <=> (<<data.Name, f>> \in StageOptionsTable)

C1_Witness ==
    /\ phase = "decoded"
    /\ data.form = "ok"
    /\ data.Name = "K8S_CANARY_CLEAN"
    /\ data.With = <<"{", "1", "}">>
    /\ err = NoErr
    /\ s.opts["K8sCanaryCleanStageOptions"] = <<1>>
    /\ s.opts["K8sCanaryRolloutStageOptions"] = NilPtr

\* C2: decoding a stage definition whose name the decoder does not handle
\* always fails; when the envelope itself decodes, the error is "unsupported
\* stage name" with the offending name, and the decode populates no options
\* field.
C2_UnknownKindRejected ==
    (Decoded /\ data.Name \notin HandledNames)
    => /\ err # NoErr
       /\ data.form = "ok" => err = <<"unsupported stage name", data.Name>>
       /\ s.opts = prev.opts

C2_Witness ==
    /\ phase = "decoded"
    /\ data.form = "ok"
    /\ data.Name = "ROLLOUT"
    /\ err = <<"unsupported stage name", "ROLLOUT">>
    /\ \A f \in OptionsFields : s.opts[f] = NilPtr

\* C3: decoding a stage definition of a handled name whose `with` block is
\* absent or empty gives no error and leaves the matching options field
\* populated with the zero value.
C3_EmptyPayloadZeroValue ==
    ( /\ Decoded
      /\ data.form = "ok"
      /\ data.Name \in HandledNames
      /\ data.With \in EmptyPayloads )
    => /\ err = NoErr
       /\ \A f \in OptionsFields :
            <<data.Name, f>> \in StageOptionsTable => s.opts[f] = <<0>>

C3_Witness ==
    /\ phase = "decoded"
    /\ data.form = "ok"
    /\ data.Name = "WAIT"
    /\ data.With = << >>
    /\ err = NoErr
    /\ s.opts["WaitStageOptions"] = <<0>>

\* ------------------------------------------------------------------------
\* Properties of apply
\* ------------------------------------------------------------------------

CallsOf(o) == { i \in DOMAIN calls : calls[i].op = o }
Logged(e) == \E i \in DOMAIN logs : logs[i] = e
Returned == pc = "done" /\ result # "none"

\* C4: when update reports service-not-found, apply calls create exactly once,
\* after the update and never before it, returns true exactly when create
\* succeeded, and logs the not-found condition as information, not as an error.
C4_CreateFallback ==
    /\ \A i \in CallsOf("create") :
          i = 2 /\ calls[1].op = "update" /\ updErr = <<"service not found">>
    /\ (Returned /\ updErr = <<"service not found">>)
       => /\ Len(calls) = 2
          /\ calls[1].op = "update"
          /\ calls[2].op = "create"
          /\ (result = "true") <=> (crtErr = NoErr)
          /\ Logged(<<"INFO", "Service was not found, a new service will be created">>)
          /\ ~Logged(<<"ERROR", "Failed to update the service">>)

C4_Witness ==
    /\ Returned
    /\ updErr = <<"service not found">>
    /\ Len(calls) = 2
    /\ crtErr = NoErr
    /\ result = "true"

\* C5: when the client cannot be built, or update fails with an error other
\* than service-not-found, apply returns false and create is never called; and
\* apply never calls update or create more than once.
C5_OtherErrorsFatal ==
    /\ Cardinality(CallsOf("update")) <= 1
    /\ Cardinality(CallsOf("create")) <= 1
    /\ (Returned /\ clientErr # NoErr) => (result = "false" /\ calls = << >>)
    /\ (Returned /\ updErr \notin {NoErr, <<"service not found">>})
       => (result = "false" /\ CallsOf("create") = {})

C5_Witness ==
    /\ Returned
    /\ updErr = <<"platform error">>
    /\ result = "false"
    /\ Len(calls) = 1

\* C6 as stated: once the service exists every run takes the update path and
\* never calls create, the service is created at most once, and the state of
\* the platform after the second run equals its state after the first.
C6_Original ==
    /\ existed => CallsOf("create") = {}
    /\ created <= 1
    /\ (Len(after) >= 2 /\ after[1].before # << >>)
       => after[2].service = after[1].service

\* C6 as amended: once the service exists every run takes the update path and
\* never calls create, the service is created at most once, and after a run
\* that returned true the state of the platform after every later run equals
\* its state after that run.
C6_Idempotent ==
    /\ existed => CallsOf("create") = {}
    /\ created <= 1
    /\ \A i, j \in DOMAIN after :
          (i < j /\ after[i].ok) => after[j].service = after[i].service

C6_Witness ==
    /\ Len(after) = 2
    /\ after[1].ok
    /\ after[1].before = << >>
    /\ created = 1
    /\ Returned
    /\ Len(calls) = 1
    /\ calls[1].op = "update"
    /\ after[2].service = after[1].service

\* C7: configureServiceManifest returns true only with both the revision and
\* the traffic split set on the manifest; when it returns false the stage ends
\* with no update or create call; and every manifest sent to the platform
\* carries both.
C7_ConfigureAllOrNothing ==
    /\ configured = "true"
       => /\ revision # << >>
          /\ sm.Revision = revision
          /\ sm.Traffic = Traffics(revision, cfg.canary)
    /\ configured = "false" => (pc = "done" /\ calls = << >> /\ result = "none")
    /\ \A i \in DOMAIN calls :
          /\ calls[i].sm.Revision = revision
          /\ calls[i].sm.Revision # << >>
          /\ calls[i].sm.Traffic = Traffics(revision, cfg.canary)

C7_Witness ==
    /\ configured = "false"
    /\ sm.Revision # << >>
    /\ sm.Traffic = << >>
    /\ pc = "done"
    /\ calls = << >>

\* C9: once cancellation has been requested, apply starts no update or create
\* call.
C9_NoCallAfterCancel == \A i \in DOMAIN calls : ~calls[i].cancelled

\* ------------------------------------------------------------------------
\* Properties of registration
\* ------------------------------------------------------------------------

\* C8: during cloudrun.Register a registration of a key that is already
\* registered fails and leaves the first registration as it is, and every such
\* failure is surfaced.
C8_DuplicateSurfaced ==
    [][ Register =>
          /\ \A k \in RegistryStages :
                stageFactories[k] # NoFactory => stageFactories'[k] = stageFactories[k]
          /\ \A k \in RegistryKinds :
                rollbackFactories[k] # NoFactory => rollbackFactories'[k] = rollbackFactories[k]
          /\ returned' - returned =
                Cardinality({k \in CloudRunStages : stageFactories[k] # NoFactory})
                + (IF rollbackFactories[ApplicationKind_CLOUDRUN] # NoFactory THEN 1 ELSE 0)
          /\ surfaced' - surfaced = returned' - returned ]_registryVars

\* C10: every stage kind cloudrun.Register has installed an executor factory
\* for is decoded by PipelineStage.UnmarshalJSON without error and with an
\* options field populated.
C10_RegisteredKindsDecode ==
    \A k \in RegistryStages :
        stageFactories[k] = "cloudrun.deployExecutor"
        => LET r == UnmarshalJSON(PipelineStage,
                        [ form |-> "ok", Id |-> "stage-1", Name |-> k,
                          Desc |-> "desc", Timeout |-> 10, With |-> << >> ])
           IN  /\ r.err = NoErr
               /\ \E f \in OptionsFields : r.s.opts[f] # NilPtr


====
